---- MODULE Spec2Model ----
(***************************************************************************)
(* Node-identity secret key resolution of chaindb.                         *)
(*                                                                         *)
(*   common/src/configs/node.rs    NodeKeyConfig::into_keypair, get_secret, *)
(*                                 write_secret_file, open_secret_file      *)
(*   common/src/params/node.rs     NodeKeyParams::node_key,                 *)
(*                                 parse_ed25519_secret                     *)
(*   common/src/params/network.rs  NetworkParams::to_network_config         *)
(*   common/src/params/shared.rs   SharedParams::base_path                  *)
(*   common/src/utils/base_path.rs BasePath                                 *)
(*   node/src/cli.rs               Command::create_configuration            *)
(*                                                                         *)
(* Bytes are integers 0..255; strings and file contents are sequences of   *)
(* bytes (ASCII codes for text).  Spec is the get-or-create protocol run by *)
(* several resolvers against one path; SpecCli is one process building its *)
(* configuration from the command line and then resolving its node key.    *)
(***************************************************************************)
EXTENDS Integers, Sequences, FiniteSets, TLC

(* ------------------------------------------------------------------ *)
(* Bounds of the model                                                   *)
(* ------------------------------------------------------------------ *)

\* Number of concurrent into_keypair() calls against the same path.
NumResolvers == 2

\* Number of distinct secrets the generator can draw.
NumKeys == 2

\* Number of injected I/O failures (permission denied, write error, ...) in a run.
MaxFaults == 2

\* Size of a short write: write_all may need several write(2) calls.
ChunkLen == 16

(* ------------------------------------------------------------------ *)
(* Program constants                                                     *)
(* ------------------------------------------------------------------ *)

\* Length of an Ed25519 secret key in bytes.
SecretLen == 32

\* Length of a hex encoded secret, the length for which hex decoding is tried.
HexLen == 64

\* Mode given to the exclusive create: 0o600.
SecretFileMode == 384

Resolvers == 1..NumResolvers

(* ------------------------------------------------------------------ *)
(* Bytes, text and hex                                                   *)
(* ------------------------------------------------------------------ *)

IsDigit(c) == c \in 48..57
IsUpperHex(c) == c \in 65..70
IsLowerHex(c) == c \in 97..102
IsHexDigit(c) == IsDigit(c) \/ IsUpperHex(c) \/ IsLowerHex(c)

\* ' ', '\r', '\n', '\t'
IsHexWhitespace(c) == c \in {32, 13, 10, 9}

HexVal(c) ==
    IF IsDigit(c) THEN c - 48
    ELSE IF IsUpperHex(c) THEN c - 55
    ELSE c - 87

LowerHexChar(n) == IF n < 10 THEN 48 + n ELSE 87 + n
UpperHexChar(n) == IF n < 10 THEN 48 + n ELSE 55 + n

\* The lower-case hex text of a byte string.
HexEncode(bytes) ==
    [i \in 1..(2 * Len(bytes)) |->
        LET b == bytes[(i + 1) \div 2]
        IN IF i % 2 = 1 THEN LowerHexChar(b \div 16) ELSE LowerHexChar(b % 16)]

\* The upper-case hex text of a byte string.
HexEncodeUpper(bytes) ==
    [i \in 1..(2 * Len(bytes)) |->
        LET b == bytes[(i + 1) \div 2]
        IN IF i % 2 = 1 THEN UpperHexChar(b \div 16) ELSE UpperHexChar(b % 16)]

\* "0x"
HexPrefix == <<48, 120>>

HasHexPrefix(s) == Len(s) >= 2 /\ SubSeq(s, 1, 2) = HexPrefix

StripHexPrefix(s) == IF HasHexPrefix(s) THEN SubSeq(s, 3, Len(s)) ELSE s

IsCont(b, i) == i <= Len(b) /\ b[i] \in 128..191

\* String::from_utf8: well-formed UTF-8 from position i on.
RECURSIVE Utf8From(_, _)
Utf8From(b, i) ==
    IF i > Len(b) THEN TRUE
    ELSE LET c == b[i] IN
         IF c < 128 THEN Utf8From(b, i + 1)
         ELSE IF c \in 194..223 THEN IsCont(b, i + 1) /\ Utf8From(b, i + 2)
         ELSE IF c = 224
              THEN i + 1 <= Len(b) /\ b[i + 1] \in 160..191
                   /\ IsCont(b, i + 2) /\ Utf8From(b, i + 3)
         ELSE IF c \in (225..236) \cup {238, 239}
              THEN IsCont(b, i + 1) /\ IsCont(b, i + 2) /\ Utf8From(b, i + 3)
         ELSE IF c = 237
              THEN i + 1 <= Len(b) /\ b[i + 1] \in 128..159
                   /\ IsCont(b, i + 2) /\ Utf8From(b, i + 3)
         ELSE IF c = 240
              THEN i + 1 <= Len(b) /\ b[i + 1] \in 144..191
                   /\ IsCont(b, i + 2) /\ IsCont(b, i + 3) /\ Utf8From(b, i + 4)
         ELSE IF c \in 241..243
              THEN IsCont(b, i + 1) /\ IsCont(b, i + 2) /\ IsCont(b, i + 3)
                   /\ Utf8From(b, i + 4)
         ELSE IF c = 244
              THEN i + 1 <= Len(b) /\ b[i + 1] \in 128..143
                   /\ IsCont(b, i + 2) /\ IsCont(b, i + 3) /\ Utf8From(b, i + 4)
         ELSE FALSE

FromUtf8Ok(b) == Utf8From(b, 1)

\* Pairs of hex digits to bytes.
HexPairsToBytes(s) ==
    [i \in 1..(Len(s) \div 2) |-> 16 * HexVal(s[2 * i - 1]) + HexVal(s[2 * i])]

Decoded(bytes) == [ok |-> TRUE, bytes |-> bytes]
NotDecoded == [ok |-> FALSE, bytes |-> <<>>]

\* array_bytes::hex2bytes: an optional "0x" prefix, then pairs of hex digits.
Hex2Bytes(s) ==
    LET t == StripHexPrefix(s)
    IN IF Len(t) % 2 = 0 /\ \A i \in 1..Len(t) : IsHexDigit(t[i])
       THEN Decoded(HexPairsToBytes(t))
       ELSE NotDecoded

\* ed25519::SecretKey::from_bytes: any 32 bytes are a secret key.
SecretKeyFromBytes(b) ==
    IF Len(b) = SecretLen THEN Decoded(b) ELSE NotDecoded

\* The secrets of the model: 32 bytes each, with bytes below and above 128.
KeyBytes(k) == [i \in 1..SecretLen |-> (37 * k + 11 * i) % 256]

Keys == {KeyBytes(k) : k \in 1..NumKeys}

ZeroBytes(n) == [i \in 1..n |-> 0]

\* ed25519::Keypair::from(secret): the keypair is a function of the secret alone.
KeypairFrom(sk) == [scheme |-> "Ed25519", secret |-> sk]


(* ------------------------------------------------------------------ *)
(* State                                                                 *)
(* ------------------------------------------------------------------ *)

VARIABLES
    fileExists,   \* the secret file exists at the path
    fileContent,  \* its bytes
    fileMode,     \* its permission bits
    fileCreator,  \* the resolver whose open created it, 0 when it was there before
    dirExists,    \* the parent directory of the path exists
    umask,        \* the process file mode creation mask
    faults,       \* injected I/O failures so far
    pc,           \* where each call of get_secret stands
    sk,           \* the secret generated by the call (node.rs:123), <<>> before
    skVec,        \* the serialization buffer sk_vec (node.rs:124)
    offset,       \* the position of the call's file handle
    result,       \* what into_keypair returned
    readOut,      \* what std::fs::read gave the call, and how the bytes were decoded
    afterOk,      \* the call began after a creating call had returned Ok
    touched,      \* the filesystem operations the call performed after the read
    opened,       \* the calls whose open_secret_file succeeded
    initAbsent,   \* the file was absent when the run began
    args,         \* the parsed command line (RunCommand)
    cliPc,        \* where do_run_cli stands
    tempDir,      \* BASE_PATH_TEMP holds a temporary directory this process created
    basePath,     \* the base path chosen by create_configuration
    cfg,          \* the NodeKeyConfig of the built configuration
    cliResult     \* how the process ended

fsVars == <<fileExists, fileContent, fileMode, fileCreator, dirExists>>
procVars == <<pc, sk, skVec, offset, result, readOut, afterOk, touched, opened>>
resolverVars == <<fileExists, fileContent, fileMode, fileCreator, dirExists, umask,
                  faults, pc, sk, skVec, offset, result, readOut, afterOk, touched,
                  opened, initAbsent>>

cliVars == <<args, cliPc, tempDir, basePath, cfg, cliResult>>

NoKeypair == KeypairFrom(<<>>)
NoResult == [tag |-> "None", key |-> NoKeypair, kind |-> "", at |-> ""]
OkResult(k) == [tag |-> "Ok", key |-> k, kind |-> "", at |-> ""]
ErrResult(kind, at) == [tag |-> "Err", key |-> NoKeypair, kind |-> kind, at |-> at]

NoRead == [tag |-> "None", bytes |-> <<>>, kind |-> "", via |-> ""]
NoBuffer == [alloc |-> FALSE, bytes |-> <<>>]

(* ------------------------------------------------------------------ *)
(* The filesystem                                                        *)
(* ------------------------------------------------------------------ *)

\* Failures of a read other than "file absent".
ReadFaults == {"PermissionDenied", "NotADirectory", "Other"}

\* umask values 0o000, 0o022, 0o077
Umasks == {0, 18, 63}

\* Modes of a file that was there before the run: 0o644, 0o600
PriorModes == {420, 384}

\* a AND NOT m, over n bits
RECURSIVE AndNot(_, _, _)
AndNot(a, m, n) ==
    IF n = 0 THEN 0
    ELSE (IF a % 2 = 1 /\ m % 2 = 0 THEN 1 ELSE 0) + 2 * AndNot(a \div 2, m \div 2, n - 1)

\* std::fs::read of the path: an injected failure, NotFound, or the whole content.
FsRead(fault) ==
    IF fault # "none" THEN [tag |-> "Err", bytes |-> <<>>, kind |-> fault]
    ELSE IF ~dirExists \/ ~fileExists
         THEN [tag |-> "Err", bytes |-> <<>>, kind |-> "NotFound"]
         ELSE [tag |-> "Ok", bytes |-> fileContent, kind |-> ""]

\* A write of chunk c through a handle at position o.
WriteAt(content, o, c) ==
    [i \in 1..(IF o + Len(c) > Len(content) THEN o + Len(c) ELSE Len(content)) |->
        IF i > o /\ i <= o + Len(c) THEN c[i - o]
        ELSE IF i <= Len(content) THEN content[i] ELSE 0]

(* ------------------------------------------------------------------ *)
(* NodeKeyConfig::into_keypair, Secret::File                             *)
(* ------------------------------------------------------------------ *)

\* A raw fallback that takes the first 32 bytes of longer content.
ParseTruncating(b) ==
    LET hexed == IF FromUtf8Ok(b) /\ Len(b) = HexLen THEN Hex2Bytes(b) ELSE NotDecoded
        r == IF hexed.ok THEN SecretKeyFromBytes(hexed.bytes)
             ELSE IF Len(b) >= SecretLen THEN Decoded(SubSeq(b, 1, SecretLen))
             ELSE NotDecoded
    IN [ok |-> r.ok, key |-> r.bytes, via |-> IF hexed.ok THEN "hex" ELSE "raw"]

\* Hex decoding tried at the raw length instead of the hex length.
ParseHexAtRawLen(b) ==
    LET hexed == IF FromUtf8Ok(b) /\ Len(b) = SecretLen THEN Hex2Bytes(b) ELSE NotDecoded
        r == IF hexed.ok THEN SecretKeyFromBytes(hexed.bytes) ELSE SecretKeyFromBytes(b)
    IN [ok |-> r.ok, key |-> r.bytes, via |-> IF hexed.ok THEN "hex" ELSE "raw"]

\* A raw fallback that pads short content with zeros up to 32 bytes.
ParsePadding(b) ==
    LET hexed == IF FromUtf8Ok(b) /\ Len(b) = HexLen THEN Hex2Bytes(b) ELSE NotDecoded
        r == IF hexed.ok THEN SecretKeyFromBytes(hexed.bytes)
             ELSE IF Len(b) < SecretLen
                  THEN Decoded(b \o ZeroBytes(SecretLen - Len(b)))
                  ELSE SecretKeyFromBytes(b)
    IN [ok |-> r.ok, key |-> r.bytes, via |-> IF hexed.ok THEN "hex" ELSE "raw"]

\* The parse closure: hex when the content is a string of length 64 that decodes,
\* otherwise the bytes themselves.
ParseEd25519(b) ==
    LET hexed == IF FromUtf8Ok(b) /\ Len(b) = HexLen THEN Hex2Bytes(b) ELSE NotDecoded
        r == IF hexed.ok THEN SecretKeyFromBytes(hexed.bytes) ELSE SecretKeyFromBytes(b)
    IN [ok |-> r.ok, key |-> r.bytes, via |-> IF hexed.ok THEN "hex" ELSE "raw"]

\* A buffer wiped before it is written.
SerializeZeroed(k) == ZeroBytes(Len(k))

\* The serialize closure: the raw bytes of the secret.
SerializeSecret(k) == k

\* Any failed read taken for an absent file.
IsAbsentOrFailed(kind) == kind \in {"NotFound"} \cup ReadFaults

\* get_secret's test for the generate-and-write branch.
IsAbsent(kind) == kind = "NotFound"

\* create(true) in place of create_new(true): an existing file is opened as it is.
OpenSecretFileNoExcl(dirEx, exists, um) ==
    IF ~dirEx THEN [ok |-> FALSE, kind |-> "NotFound", mode |-> 0]
    ELSE [ok |-> TRUE, kind |-> "", mode |-> AndNot(SecretFileMode, um, 12)]

\* The open without .mode(0o600): the default 0o666, less the umask.
OpenSecretFileDefaultMode(dirEx, exists, um) ==
    IF ~dirEx THEN [ok |-> FALSE, kind |-> "NotFound", mode |-> 0]
    ELSE IF exists THEN [ok |-> FALSE, kind |-> "AlreadyExists", mode |-> 0]
    ELSE [ok |-> TRUE, kind |-> "", mode |-> AndNot(438, um, 12)]

\* open_secret_file (unix): write, create_new, mode 0o600.
OpenSecretFile(dirEx, exists, um) ==
    IF ~dirEx THEN [ok |-> FALSE, kind |-> "NotFound", mode |-> 0]
    ELSE IF exists THEN [ok |-> FALSE, kind |-> "AlreadyExists", mode |-> 0]
    ELSE [ok |-> TRUE, kind |-> "", mode |-> AndNot(SecretFileMode, um, 12)]

\* sk_vec.zeroize()
Zeroized(buf) == [alloc |-> buf.alloc, bytes |-> ZeroBytes(Len(buf.bytes))]

Finish(p, r) ==
    /\ pc' = [pc EXCEPT ![p] = "done"]
    /\ result' = [result EXCEPT ![p] = r]

\* std::fs::read(&file).and_then(parse).or_else(...): node.rs:116-121, 128-130
ReadSecret(p) ==
    /\ pc[p] = "read"
    /\ \E fault \in ReadFaults \cup {"none"} :
        /\ fault # "none" => faults < MaxFaults
        /\ faults' = IF fault = "none" THEN faults ELSE faults + 1
        /\ LET out == FsRead(fault)
               parsed == ParseEd25519(out.bytes)
               e == IF out.tag = "Err" THEN ErrResult(out.kind, "read")
                    ELSE ErrResult("InvalidData", "parse")
           IN /\ readOut' = [readOut EXCEPT ![p] =
                    [tag |-> out.tag, bytes |-> out.bytes, kind |-> out.kind,
                     via |-> IF out.tag = "Ok" THEN parsed.via ELSE ""]]
              /\ IF out.tag = "Ok" /\ parsed.ok
                 THEN Finish(p, OkResult(KeypairFrom(parsed.key)))
                 ELSE IF IsAbsent(e.kind)
                      THEN /\ pc' = [pc EXCEPT ![p] = "mkdir"]
                           /\ UNCHANGED result
                      ELSE Finish(p, e)
    /\ afterOk' = [afterOk EXCEPT ![p] =
            \E q \in Resolvers : q \in opened /\ result[q].tag = "Ok"]
    /\ UNCHANGED <<fsVars, umask, sk, skVec, offset, touched, opened, initAbsent, cliVars>>

\* file.as_ref().parent().map_or(Ok(()), fs::create_dir_all)?: node.rs:122
CreateDirAll(p) ==
    /\ pc[p] = "mkdir"
    /\ \E fail \in BOOLEAN :
        /\ fail => faults < MaxFaults
        /\ faults' = IF fail THEN faults + 1 ELSE faults
        /\ IF fail
           THEN /\ Finish(p, ErrResult("PermissionDenied", "create_dir_all"))
                /\ UNCHANGED <<dirExists, touched>>
           ELSE /\ dirExists' = TRUE
                /\ touched' = [touched EXCEPT ![p] = @ \cup {"create_dir_all"}]
                /\ pc' = [pc EXCEPT ![p] = "generate"]
                /\ UNCHANGED result
    /\ UNCHANGED <<fileExists, fileContent, fileMode, fileCreator, umask, sk, skVec,
                   offset, readOut, afterOk, opened, initAbsent, cliVars>>

\* let sk = generate(); let mut sk_vec = serialize(&sk): node.rs:123-124
Generate(p) ==
    /\ pc[p] = "generate"
    /\ \E k \in Keys :
        /\ sk' = [sk EXCEPT ![p] = k]
        /\ skVec' = [skVec EXCEPT ![p] = [alloc |-> TRUE, bytes |-> SerializeSecret(k)]]
    /\ pc' = [pc EXCEPT ![p] = "open"]
    /\ UNCHANGED <<fsVars, umask, faults, offset, result, readOut, afterOk, touched,
                   opened, initAbsent, cliVars>>

\* let mut file = open_secret_file(&path)?: node.rs:139, and the ? of node.rs:125
OpenFile(p) ==
    /\ pc[p] = "open"
    /\ \E fail \in BOOLEAN :
        /\ fail => faults < MaxFaults
        /\ faults' = IF fail THEN faults + 1 ELSE faults
        /\ LET r == IF fail THEN [ok |-> FALSE, kind |-> "PermissionDenied", mode |-> 0]
                    ELSE OpenSecretFile(dirExists, fileExists, umask)
           IN IF r.ok
              THEN /\ fileExists' = TRUE
                   /\ fileContent' = IF fileExists THEN fileContent ELSE <<>>
                   /\ fileMode' = IF fileExists THEN fileMode ELSE r.mode
                   /\ fileCreator' = IF fileExists THEN fileCreator ELSE p
                   /\ opened' = opened \cup {p}
                   /\ offset' = [offset EXCEPT ![p] = 0]
                   /\ touched' = [touched EXCEPT ![p] = @ \cup {"open"}]
                   /\ pc' = [pc EXCEPT ![p] = "write"]
                   /\ UNCHANGED result
              ELSE /\ Finish(p, ErrResult(r.kind, "open"))
                   /\ UNCHANGED <<fileExists, fileContent, fileMode, fileCreator, opened,
                                  offset, touched>>
    /\ UNCHANGED <<dirExists, umask, sk, skVec, readOut, afterOk, initAbsent, cliVars>>

\* file.write_all(sk_bytes), then sk_vec.zeroize(); Ok(sk): node.rs:140, 125-127
WriteAll(p) ==
    /\ pc[p] = "write"
    /\ LET left == Len(skVec[p].bytes) - offset[p]
       IN \E n \in {left, IF left > ChunkLen THEN ChunkLen ELSE left, -1} :
            /\ n = -1 => faults < MaxFaults
            /\ faults' = IF n = -1 THEN faults + 1 ELSE faults
            /\ IF n = -1
               THEN /\ Finish(p, ErrResult("Other", "write"))
                    /\ UNCHANGED <<fileContent, offset, skVec, touched>>
               ELSE /\ fileContent' = WriteAt(fileContent, offset[p],
                                        SubSeq(skVec[p].bytes, offset[p] + 1, offset[p] + n))
                    /\ offset' = [offset EXCEPT ![p] = @ + n]
                    /\ touched' = [touched EXCEPT ![p] = @ \cup {"write"}]
                    /\ IF n = left
                       THEN /\ skVec' = [skVec EXCEPT ![p] = Zeroized(@)]
                            /\ Finish(p, OkResult(KeypairFrom(sk[p])))
                       ELSE UNCHANGED <<skVec, pc, result>>
    /\ UNCHANGED <<fileExists, fileMode, fileCreator, dirExists, umask, sk, readOut,
                   afterOk, opened, initAbsent, cliVars>>

(* ------------------------------------------------------------------ *)
(* Command line to configuration                                         *)
(* ------------------------------------------------------------------ *)

\* Paths are sequences of components.
GivenBasePath == <<"base">>
TempBasePath == <<"tmp", "substrate">>
ProjectBasePath == <<"home", ".local", "share", "chaindb">>
GivenKeyFile == <<"keys", "node.key">>

\* NODE_KEY_ED25519_FILE
NodeKeyEd25519File == "secret_ed25519"

\* DEFAULT_NETWORK_CONFIG_PATH
DefaultNetworkConfigPath == "network"

\* BasePath::config_dir
ConfigDir(base, chainId) == base \o <<"chains", chainId>>

NoCfg == [variant |-> "Unset", key |-> <<>>, path |-> <<>>]
SecretInput(k) == [variant |-> "Input", key |-> k, path |-> <<>>]
SecretFile(f) == [variant |-> "File", key |-> <<>>, path |-> f]
SecretNew == [variant |-> "New", key |-> <<>>, path |-> <<>>]

\* impl Default for NodeKeyConfig
DefaultNodeKeyConfig == SecretNew

NoArgs == [dev |-> FALSE, basePathGiven |-> FALSE, params |-> FALSE,
           keyGiven |-> FALSE, key |-> <<>>, fileGiven |-> FALSE]

NoExit == [tag |-> "None", kind |-> "", key |-> NoKeypair]
ExitOk(kp) == [tag |-> "Ok", kind |-> "", key |-> kp]
ExitErr(kind) == [tag |-> "Err", kind |-> kind, key |-> NoKeypair]

\* H256::from_str: an optional "0x" prefix; the hex iterator skips white space;
\* exactly 32 bytes must come out.
H256FromStr(s) ==
    LET t == SelectSeq(StripHexPrefix(s), LAMBDA c : ~IsHexWhitespace(c))
    IN IF Len(t) = 2 * SecretLen /\ \A i \in 1..Len(t) : IsHexDigit(t[i])
       THEN Decoded(HexPairsToBytes(t))
       ELSE NotDecoded

\* parse_ed25519_secret
ParseEd25519Secret(hex) ==
    LET h == H256FromStr(hex)
        k == IF h.ok THEN SecretKeyFromBytes(h.bytes) ELSE NotDecoded
    IN IF k.ok
       THEN [ok |-> TRUE, cfg |-> SecretInput(k.bytes), err |-> ""]
       ELSE [ok |-> FALSE, cfg |-> NoCfg, err |-> "Input"]

\* NodeKeyParams::node_key
NodeKey(a, netConfigDir) ==
    IF a.keyGiven
    THEN ParseEd25519Secret(a.key)
    ELSE [ok |-> TRUE,
          cfg |-> SecretFile(IF a.fileGiven THEN GivenKeyFile
                             ELSE netConfigDir \o <<NodeKeyEd25519File>>),
          err |-> ""]

\* NetworkParams::to_network_config
ToNetworkConfig(a, netConfigDir) ==
    IF a.params
    THEN NodeKey(a, netConfigDir)
    ELSE [ok |-> TRUE, cfg |-> DefaultNodeKeyConfig, err |-> ""]

\* create_configuration: self.run.shard_params.base_path()?.unwrap_or_else(from_project)
BasePathStep ==
    /\ cliPc = "base_path"
    /\ \E fail \in BOOLEAN :
        /\ fail => (faults < MaxFaults /\ ~args.basePathGiven /\ args.dev)
        /\ faults' = IF fail THEN faults + 1 ELSE faults
        /\ IF fail
           THEN /\ cliResult' = ExitErr("Io")
                /\ cliPc' = "exit"
                /\ UNCHANGED <<basePath, tempDir>>
           ELSE /\ basePath' = IF args.basePathGiven THEN GivenBasePath
                               ELSE IF args.dev THEN TempBasePath
                               ELSE ProjectBasePath
                /\ tempDir' = (~args.basePathGiven /\ args.dev)
                /\ cliPc' = "network"
                /\ UNCHANGED cliResult
    /\ UNCHANGED <<args, cfg, fsVars, umask, procVars, initAbsent>>

\* create_configuration: config_dir, net_config_dir, to_network_config(..)?
NetworkConfigStep ==
    /\ cliPc = "network"
    /\ LET netConfigDir == ConfigDir(basePath, "todo!") \o <<DefaultNetworkConfigPath>>
           r == ToNetworkConfig(args, netConfigDir)
       IN IF r.ok
          THEN /\ cfg' = r.cfg
               /\ cliPc' = "service"
               /\ UNCHANGED cliResult
          ELSE /\ cliResult' = ExitErr(r.err)
               /\ cliPc' = "exit"
               /\ UNCHANGED cfg
    /\ UNCHANGED <<args, tempDir, basePath, resolverVars>>

\* new_service -> NetworkWorker::new -> into_keypair: the match on the secret
NetworkWorkerNew ==
    /\ cliPc = "service"
    /\ IF cfg.variant = "File"
       THEN /\ pc' = [pc EXCEPT ![1] = "read"]
            /\ cliPc' = "resolving"
            /\ UNCHANGED cliResult
       ELSE /\ \E k \in (IF cfg.variant = "Input" THEN {cfg.key} ELSE Keys) :
                cliResult' = ExitOk(KeypairFrom(k))
            /\ cliPc' = "exit"
            /\ UNCHANGED pc
    /\ UNCHANGED <<args, tempDir, basePath, cfg, fsVars, umask, faults, sk, skVec, offset,
                   result, readOut, afterOk, touched, opened, initAbsent>>

\* NetworkWorker::new: let node_identify = cfg.node_key.clone().into_keypair()?
NetworkWorkerDone ==
    /\ cliPc = "resolving"
    /\ pc[1] = "done"
    /\ cliResult' = IF result[1].tag = "Ok" THEN ExitOk(result[1].key) ELSE ExitErr("Io")
    /\ cliPc' = "exit"
    /\ UNCHANGED <<args, tempDir, basePath, cfg, resolverVars>>

\* What --node-key may be given as.
NodeKeyArgs ==
    LET hex == HexEncode(KeyBytes(1))
    IN { hex,
         HexEncodeUpper(KeyBytes(2)),
         SubSeq(hex, 1, HexLen - 1),
         hex \o <<48>>,
         SubSeq(hex, 1, HexLen - 1) \o <<103>>,
         HexPrefix \o hex,
         HexPrefix \o SubSeq(hex, 1, HexLen - 2),
         hex \o <<10>>,
         SubSeq(hex, 1, 8) \o <<32>> \o SubSeq(hex, 9, HexLen),
         <<>> }

CommandLines ==
    {a \in [dev : BOOLEAN, basePathGiven : BOOLEAN, params : BOOLEAN,
            keyGiven : BOOLEAN, key : NodeKeyArgs \cup {<<>>}, fileGiven : BOOLEAN] :
        /\ ~a.params => (~a.keyGiven /\ ~a.fileGiven)
        /\ ~a.keyGiven => a.key = <<>>}

(* ------------------------------------------------------------------ *)
(* Several resolvers against one path                                    *)
(* ------------------------------------------------------------------ *)

\* What the path may hold before the run.
PriorContents ==
    LET raw == KeyBytes(1)
        hex == HexEncode(raw)
    IN Keys
       \cup {HexEncode(k) : k \in Keys}
       \cup {HexEncodeUpper(k) : k \in Keys}
       \cup { <<>>,
              SubSeq(raw, 1, SecretLen - 1),
              raw \o <<0>>,
              SubSeq(hex, 1, HexLen - 1),
              hex \o <<48>>,
              SubSeq(hex, 1, HexLen - 1) \o <<103>>,
              <<43>> \o SubSeq(hex, 2, HexLen),
              HexPrefix \o SubSeq(hex, 1, HexLen - 2),
              HexPrefix \o hex,
              SubSeq(hex, 1, HexLen - 2) \o <<195, 169>>,
              [i \in 1..HexLen |-> 255] }

\* What the filesystem holds before a run.
InitFs ==
    /\ umask \in Umasks
    /\ \/ /\ fileExists = FALSE
          /\ fileContent = <<>>
          /\ fileMode = 0
          /\ dirExists \in BOOLEAN
       \/ /\ fileExists = TRUE
          /\ fileContent \in PriorContents
          /\ fileMode \in PriorModes
          /\ dirExists = TRUE
    /\ fileCreator = 0
    /\ initAbsent = ~fileExists
    /\ faults = 0

InitCalls(at) ==
    /\ pc = [p \in Resolvers |-> at]
    /\ sk = [p \in Resolvers |-> <<>>]
    /\ skVec = [p \in Resolvers |-> NoBuffer]
    /\ offset = [p \in Resolvers |-> 0]
    /\ result = [p \in Resolvers |-> NoResult]
    /\ readOut = [p \in Resolvers |-> NoRead]
    /\ afterOk = [p \in Resolvers |-> FALSE]
    /\ touched = [p \in Resolvers |-> {}]
    /\ opened = {}

\* Several calls of into_keypair on Secret::File(path) are about to read.
Init ==
    /\ InitFs
    /\ InitCalls("read")
    /\ args = NoArgs
    /\ cliPc = "off"
    /\ tempDir = FALSE
    /\ basePath = <<>>
    /\ cfg = NoCfg
    /\ cliResult = NoExit

\* One process: the command line is parsed, nothing has run yet.
InitCli ==
    /\ InitFs
    /\ InitCalls("off")
    /\ args \in CommandLines
    \* a temporary base directory made by this run holds no secret file yet
    /\ (args.dev /\ ~args.basePathGiven /\ ~args.fileGiven) => (~fileExists /\ ~dirExists)
    /\ cliPc = "base_path"
    /\ tempDir = FALSE
    /\ basePath = <<>>
    /\ cfg = NoCfg
    /\ cliResult = NoExit

ResolverStep(p) ==
    \/ ReadSecret(p)
    \/ CreateDirAll(p)
    \/ Generate(p)
    \/ OpenFile(p)
    \/ WriteAll(p)

Next == \E p \in Resolvers : ResolverStep(p)

vars == <<resolverVars, cliVars>>

Spec == Init /\ [][Next]_vars

NextCli ==
    \/ BasePathStep
    \/ NetworkConfigStep
    \/ NetworkWorkerNew
    \/ NetworkWorkerDone
    \/ ResolverStep(1)

SpecCli == InitCli /\ [][NextCli]_vars


(* ------------------------------------------------------------------ *)
(* Debug rendering                                                       *)
(* ------------------------------------------------------------------ *)

\* A rendering is a sequence of pieces: text of the format itself, the bytes of a
\* string field, or the components of a path field.
Lit(s) == [lit |-> s, bytes |-> <<>>, path |-> <<>>]
Str(b) == [lit |-> "", bytes |-> b, path |-> <<>>]
PathPiece(f) == [lit |-> "", bytes |-> <<>>, path |-> f]

\* <str as Debug>: quotes, backslashes and control characters are escaped.
RECURSIVE EscapeDebug(_)
EscapeDebug(b) ==
    IF b = <<>> THEN <<>>
    ELSE LET c == Head(b)
             e == IF c = 10 THEN <<92, 110>>
                  ELSE IF c = 13 THEN <<92, 114>>
                  ELSE IF c = 9 THEN <<92, 116>>
                  ELSE IF c = 34 THEN <<92, 34>>
                  ELSE IF c = 92 THEN <<92, 92>>
                  ELSE <<c>>
         IN e \o EscapeDebug(Tail(b))

\* impl fmt::Debug for Secret<K>
DebugSecret(c) ==
    IF c.variant = "Input" THEN <<Lit("Secret::Input")>>
    ELSE IF c.variant = "File" THEN <<Lit("Secret::File("), PathPiece(c.path), Lit(")")>>
    ELSE <<Lit("Secret::New")>>

\* #[derive(Debug)] on NodeKeyConfig
DebugNodeKeyConfig(c) == <<Lit("Ed25519(")>> \o DebugSecret(c) \o <<Lit(")")>>

\* generate_node_name(): some name
GeneratedNodeName == <<110, 111, 100, 101, 45, 49>>

\* #[derive(Debug)] on NetworkConfiguration
DebugNetworkConfiguration(name, c) ==
    <<Lit("NetworkConfiguration { node_name: "), Str(EscapeDebug(name)),
      Lit(", node_key: ")>> \o DebugNodeKeyConfig(c) \o <<Lit(" }")>>

\* #[derive(Debug)] on NodeKeyParams: every field is rendered, node_key included
DebugNodeKeyParams(a) ==
    <<Lit("NodeKeyParams { node_key: ")>>
    \o (IF a.keyGiven THEN <<Lit("Some("), Str(EscapeDebug(a.key)), Lit(")")>>
        ELSE <<Lit("None")>>)
    \o <<Lit(", node_key_type: Ed25519, node_key_file: ")>>
    \o (IF a.fileGiven THEN <<Lit("Some("), PathPiece(GivenKeyFile), Lit(")")>>
        ELSE <<Lit("None")>>)
    \o <<Lit(" }")>>

(* ------------------------------------------------------------------ *)
(* Properties                                                            *)
(* ------------------------------------------------------------------ *)

IsPrefix(a, b) == Len(a) <= Len(b) /\ a = SubSeq(b, 1, Len(a))

\* A failure injected into the call itself, not a consequence of the race.
IsInjected(r) ==
    \/ r.at = "read" /\ r.kind \in ReadFaults
    \/ r.at = "create_dir_all"
    \/ r.at = "open" /\ r.kind = "PermissionDenied"
    \/ r.at = "write"

\* The two encodings a secret file may hold.
IsRawSecret(b) == Len(b) = SecretLen
IsHexSecret(b) == Len(b) = HexLen /\ \A i \in 1..Len(b) : IsHexDigit(b[i])

\* C1: once a call that found the file absent has created it and returned Ok(kp1),
\* every call that begins afterwards and whose read does not itself fail returns
\* Ok(kp1): the secret read back is the one generated and returned by the creator.
IdempotentPersistence ==
    \A p \in Resolvers :
        (afterOk[p] /\ readOut[p].tag # "None") =>
            \/ readOut[p].tag = "Err" /\ readOut[p].kind \in ReadFaults
            \/ /\ pc[p] = "done"
               /\ result[p].tag = "Ok"
               /\ \A q \in opened :
                    result[q].tag = "Ok" =>
                        /\ result[q].key = KeypairFrom(sk[q])
                        /\ result[p].key = result[q].key

\* A call that began after the creator returned Ok has itself returned Ok.
IdempotentPersistenceWitness ==
    \E p \in Resolvers : afterOk[p] /\ pc[p] = "done" /\ result[p].tag = "Ok"

\* From an absent file, at most one call's exclusive create succeeds, and exactly
\* one once any call has collided; the file exists only through that create, and its
\* bytes are always a prefix of the creator's secret, which only grows: no other call
\* overwrites or truncates them.
ExclusiveCreateState ==
    initAbsent =>
        /\ Cardinality(opened) <= 1
        /\ fileExists <=> opened # {}
        /\ fileExists => (opened = {fileCreator} /\ IsPrefix(fileContent, sk[fileCreator]))
        /\ \A p \in Resolvers :
            (result[p].at = "open" /\ result[p].kind = "AlreadyExists") =>
                (Cardinality(opened) = 1 /\ p \notin opened /\ touched[p] \subseteq {"create_dir_all"})

ExclusiveCreateStep ==
    (initAbsent /\ fileExists) =>
        /\ fileExists'
        /\ fileCreator' = fileCreator
        /\ IsPrefix(fileContent, fileContent')
        /\ fileContent' # fileContent => pc[fileCreator] = "write"

\* C2: exclusive create, in every state and over every step: exactly one creator, and
\* no other call overwrites or truncates the bytes it wrote.
ExclusiveCreate == []ExclusiveCreateState /\ [][ExclusiveCreateStep]_vars

\* One call created the file and another collided with it.
ExclusiveCreateWitness ==
    /\ initAbsent
    /\ \E p, q \in Resolvers :
        /\ p \in opened
        /\ result[q].at = "open" /\ result[q].kind = "AlreadyExists"
        /\ sk[p] # sk[q]

\* C3: in a race on an absent file a call that is not the creator never reads an empty
\* or partly written file, never fails with InvalidData, and, having found the file
\* absent, ends with the failure of its exclusive create.
LoserSeesCreationFailure ==
    initAbsent =>
        \A p \in Resolvers \ opened :
            /\ readOut[p].tag = "Ok" => Len(readOut[p].bytes) = SecretLen
            /\ result[p].kind # "InvalidData"
            /\ (pc[p] = "done" /\ readOut[p].kind = "NotFound" /\ ~IsInjected(result[p])) =>
                    result[p] = ErrResult("AlreadyExists", "open")

\* C4: when a call that took the create path has returned, its serialization buffer
\* holds zeros only, whether the write succeeded or failed.
BufferZeroedOnEveryExit ==
    \A p \in Resolvers :
        (pc[p] = "done" /\ skVec[p].alloc) =>
            skVec[p].bytes = ZeroBytes(Len(skVec[p].bytes))

\* C5: a read that fails with a kind other than NotFound ends the call with that same
\* error; the call creates no directory, generates no key and creates no file.
ReadFailurePropagates ==
    \A p \in Resolvers :
        (readOut[p].tag = "Err" /\ readOut[p].kind # "NotFound") =>
            /\ pc[p] = "done"
            /\ result[p] = ErrResult(readOut[p].kind, "read")
            /\ touched[p] = {}
            /\ sk[p] = <<>>
            /\ ~skVec[p].alloc
            /\ p \notin opened

\* A call's read was refused.
ReadFailurePropagatesWitness ==
    \E p \in Resolvers :
        readOut[p].kind = "PermissionDenied" /\ pc[p] = "done" /\ fileExists

\* C6: content that is neither 32 bytes nor 64 hex characters makes the call fail with
\* InvalidData; the call never generates, never returns a keypair and writes nothing,
\* and a file that was there before the run keeps its content.
BadContentIsDecodeError ==
    /\ \A p \in Resolvers :
        (readOut[p].tag = "Ok" /\ ~IsRawSecret(readOut[p].bytes)
                               /\ ~IsHexSecret(readOut[p].bytes)) =>
            /\ pc[p] = "done"
            /\ result[p] = ErrResult("InvalidData", "parse")
            /\ touched[p] = {}
            /\ sk[p] = <<>>
            /\ p \notin opened
    /\ ~initAbsent => (fileExists /\ fileContent \in PriorContents /\ opened = {})

\* A call read 64 bytes that are not all hex digits, from a file found in place.
BadContentIsDecodeErrorWitness ==
    /\ ~initAbsent
    /\ \E p \in Resolvers :
        /\ readOut[p].tag = "Ok"
        /\ Len(readOut[p].bytes) = HexLen
        /\ ~IsHexSecret(readOut[p].bytes)
        /\ result[p].kind = "InvalidData"

\* C7: a file holding the 32 raw bytes of a secret k, or the 64 hex characters of k,
\* resolves to the keypair of k; hex decoding is used only for content of length 64,
\* and for every content of 64 hex digits.
RoundTripBothEncodings ==
    \A p \in Resolvers :
        readOut[p].tag = "Ok" =>
            /\ \A k \in Keys :
                readOut[p].bytes \in {k, HexEncode(k), HexEncodeUpper(k)} =>
                    (pc[p] = "done" /\ result[p] = OkResult(KeypairFrom(k)))
            /\ readOut[p].via = "hex" => Len(readOut[p].bytes) = HexLen
            /\ IsHexSecret(readOut[p].bytes) => readOut[p].via = "hex"
            /\ IsRawSecret(readOut[p].bytes) => readOut[p].via = "raw"

\* A call decoded a hex file, and another call the raw bytes of the same secret.
RoundTripBothEncodingsWitness ==
    \E p \in Resolvers, k \in Keys :
        /\ readOut[p].bytes = HexEncode(k)
        /\ readOut[p].via = "hex"
        /\ result[p] = OkResult(KeypairFrom(k))

\* C10: a secret file created by a resolver has mode 0o600 in every state in which it
\* exists, empty, partly written or complete.
OwnerOnlyFromCreation ==
    (fileExists /\ fileCreator # 0) => fileMode = SecretFileMode

\* The file has just been created and is still empty, under umask 0o022.
OwnerOnlyFromCreationWitness ==
    fileExists /\ fileCreator # 0 /\ fileContent = <<>> /\ umask = 18

\* Malformed --node-key strings: 63 or 65 hex characters, or some non-hex character.
IsBadNodeKey(s) ==
    \/ Len(s) \in {HexLen - 1, HexLen + 1} /\ \A i \in 1..Len(s) : IsHexDigit(s[i])
    \/ \E i \in 1..Len(s) : ~IsHexDigit(s[i])

\* C8: the built Secret is Input when --node-key is given, else File(--node-key-file)
\* when that is given, else File(<net_config_dir>/secret_ed25519), never a fresh key.
SourcePrecedence ==
    cfg.variant # "Unset" =>
        IF args.keyGiven THEN cfg.variant = "Input"
        ELSE IF args.fileGiven THEN cfg = SecretFile(GivenKeyFile)
        ELSE cfg = SecretFile(ConfigDir(basePath, "todo!")
                                \o <<DefaultNetworkConfigPath, NodeKeyEd25519File>>)

\* C9: a --node-key of 63 or 65 hex characters, or with a non-hex character, ends the
\* process with an input error, and nothing on the filesystem was read or created
\* (runs in which no I/O operation was made to fail).
BadNodeKeyRejectedUntouched ==
    (args.keyGiven /\ IsBadNodeKey(args.key) /\ cliPc = "exit" /\ faults = 0) =>
        /\ cliResult = ExitErr("Input")
        /\ ~tempDir
        /\ readOut[1].tag = "None"
        /\ touched[1] = {}


\* needle occurs in hay
Contains(hay, needle) ==
    \E i \in 0..(Len(hay) - Len(needle)) : SubSeq(hay, i + 1, i + Len(needle)) = needle

\* The rendering shows the secret k, raw or hex encoded.
Leaks(rendering, k) ==
    \E i \in 1..Len(rendering) :
        \/ Contains(rendering[i].bytes, k)
        \/ Contains(rendering[i].bytes, HexEncode(k))
        \/ Contains(rendering[i].bytes, HexEncodeUpper(k))

\* C11: Debug output never depends on key material: any two Secret::Input render
\* alike, Secret::File renders its path only, and once the configuration holds an
\* Input secret, neither the NodeKeyConfig, the NetworkConfiguration nor the
\* NodeKeyParams it was built from renders that secret, raw or in hex.
DebugHidesSecret ==
    /\ \A k1, k2 \in Keys : DebugSecret(SecretInput(k1)) = DebugSecret(SecretInput(k2))
    /\ cfg.variant = "File" =>
            DebugSecret(cfg) = <<Lit("Secret::File("), PathPiece(cfg.path), Lit(")")>>
    /\ cfg.variant = "Input" =>
            /\ ~Leaks(DebugNodeKeyConfig(cfg), cfg.key)
            /\ ~Leaks(DebugNetworkConfiguration(GeneratedNodeName, cfg), cfg.key)
            /\ ~Leaks(DebugNodeKeyParams(args), cfg.key)


\* C12: starting from an absent file, all calls that return Ok return the same key,
\* and that key is the one whose 32 bytes are stored in the file, from the moment the
\* first of them returns.
Agreement ==
    initAbsent =>
        \A p \in Resolvers :
            result[p].tag = "Ok" =>
                /\ fileExists
                /\ fileContent = result[p].key.secret
                /\ Len(fileContent) = SecretLen
                /\ \A q \in Resolvers :
                    result[q].tag = "Ok" => result[q].key = result[p].key

\* The creator and a call that read the file have both returned Ok.
AgreementWitness ==
    /\ initAbsent
    /\ \E p, q \in Resolvers :
        /\ p \in opened /\ q \notin opened
        /\ result[p].tag = "Ok" /\ result[q].tag = "Ok"
        /\ readOut[q].tag = "Ok"

====
